---- MODULE Spec2Model ----
(***************************************************************************)
(* Model of the appointment scheduling and availability engine of the      *)
(* salon management system (timeSlotUtils) and of the booking, edit and    *)
(* cancellation handlers that call it.                                     *)
(*                                                                         *)
(* A JavaScript string is a sequence of one-character strings, so that     *)
(* "09:30" is <<"0","9",":","3","0">>.  A calendar date "YYYY-MM-DD" is    *)
(* its day number since 1970-01-01; a Date object is a count of minutes.   *)
(***************************************************************************)
EXTENDS Integers, Sequences, FiniteSets, TLC

VARIABLES
  existingAppointments, \* engine: the appointment list handed to the engine
  op,                   \* engine: name of the last engine function applied
  args,                 \* engine: the arguments of that application
  retBool,              \* engine: boolean result of the last application
  retSlots,             \* engine: string[] result of the last application
  retNumber,            \* engine: numeric result of the last application
  appointments,         \* session: React state `appointments`
  db,                   \* storage: rows of the appointments table, by id
  lastAction,           \* session: the last handler run and what it did
  callInForm,           \* session: React state `callInForm` of the call-in modal
  sessions,             \* browser sessions: each one's handler position and list
  history,              \* per stored row: who created it and when it was checked
  invocations,          \* one session: each running call of the submit handler
  tz                    \* minutes the machine's local time is ahead of UTC

vars == <<existingAppointments, op, args, retBool, retSlots, retNumber,
          appointments, db, lastAction, callInForm, sessions, history,
          invocations, tz>>

engineVars == <<existingAppointments, op, args, retBool, retSlots, retNumber>>
sessionVars == <<appointments, db, lastAction>>
multiVars == <<sessions, history, invocations>>

----------------------------------------------------------------------------
(* Bounds of the model *)

MaxAppts == 2       \* longest appointment list handed to the engine
MaxBookings == 2    \* rows the storage may hold in a session run
MaxMinute == 1439   \* largest minute of the day handed to minutesToTime

----------------------------------------------------------------------------
(* JavaScript strings and numbers *)

undefined == <<"undefined">>   \* the value of an absent property; not a string
null == <<"null">>             \* SQL NULL / JavaScript null; not a string

DigitChars == <<"0", "1", "2", "3", "4", "5", "6", "7", "8", "9">>

IsDigit(c) == \E i \in 1..10 : DigitChars[i] = c

DigitValue(c) == (CHOOSE i \in 1..10 : DigitChars[i] = c) - 1

\* Number.prototype.toString for a non-negative integer
RECURSIVE toString(_)
toString(n) ==
  IF n < 10 THEN <<DigitChars[n + 1]>>
  ELSE toString(n \div 10) \o <<DigitChars[(n % 10) + 1]>>

\* String.prototype.padStart with a one-character filler
RECURSIVE padStart(_, _, _)
padStart(s, targetLength, fill) ==
  IF Len(s) >= targetLength THEN s
  ELSE padStart(<<fill>> \o s, targetLength, fill)

\* Number(s) for a string of decimal digits (Number("") is 0)
RECURSIVE Number(_)
Number(s) ==
  IF s = <<>> THEN 0
  ELSE Number(SubSeq(s, 1, Len(s) - 1)) * 10 + DigitValue(s[Len(s)])

\* String.prototype.split with a one-character separator
RECURSIVE split(_, _)
split(s, sep) ==
  IF \A i \in 1..Len(s) : s[i] # sep THEN <<s>>
  ELSE LET k == CHOOSE i \in 1..Len(s) :
                  s[i] = sep /\ \A j \in 1..(i - 1) : s[j] # sep
       IN <<SubSeq(s, 1, k - 1)>> \o split(SubSeq(s, k + 1, Len(s)), sep)

\* String.prototype.slice(0, n)
slice0(s, n) == SubSeq(s, 1, IF n < Len(s) THEN n ELSE Len(s))

\* JavaScript truthiness of an optional string
Truthy(s) == s # undefined /\ s # null /\ s # <<>>

----------------------------------------------------------------------------
(* timeSlotUtils: time conversion, overlap, end time *)

timeToMinutes(timeString) ==
  LET parts == split(timeString, ":")
      hours == Number(parts[1])
      minutes == Number(parts[2])
  IN hours * 60 + minutes

\* variant: without padStart
minutesToTimeUnpadded(minutes) ==
  LET hours == minutes \div 60
      mins == minutes % 60
  IN toString(hours) \o <<":">> \o toString(mins)

minutesToTime(minutes) ==
  LET hours == minutes \div 60
      mins == minutes % 60
  IN padStart(toString(hours), 2, "0") \o <<":">> \o padStart(toString(mins), 2, "0")

\* variant: || in place of &&
doTimeRangesOverlapEither(start1, end1, start2, end2) ==
  timeToMinutes(start1) < timeToMinutes(end2)
    \/ timeToMinutes(start2) < timeToMinutes(end1)

\* variant: <= in place of <
doTimeRangesOverlapClosed(start1, end1, start2, end2) ==
  timeToMinutes(start1) <= timeToMinutes(end2)
    /\ timeToMinutes(start2) <= timeToMinutes(end1)

\* variant: one range has to start strictly inside the other
doTimeRangesOverlapStartsInside(start1, end1, start2, end2) ==
  \/ timeToMinutes(start1) < timeToMinutes(start2)
       /\ timeToMinutes(start2) < timeToMinutes(end1)
  \/ timeToMinutes(start2) < timeToMinutes(start1)
       /\ timeToMinutes(start1) < timeToMinutes(end2)

doTimeRangesOverlap(start1, end1, start2, end2) ==
  LET start1Min == timeToMinutes(start1)
      end1Min == timeToMinutes(end1)
      start2Min == timeToMinutes(start2)
      end2Min == timeToMinutes(end2)
  IN start1Min < end2Min /\ start2Min < end1Min

\* variant: the end is taken on the 24-hour clock
getAppointmentEndTimeWrapped(startTime, durationMinutes) ==
  LET startMinutes == timeToMinutes(startTime)
      endMinutes == (startMinutes + durationMinutes) % 1440
  IN minutesToTime(endMinutes)

getAppointmentEndTime(startTime, durationMinutes) ==
  LET startMinutes == timeToMinutes(startTime)
      endMinutes == startMinutes + durationMinutes
  IN minutesToTime(endMinutes)

----------------------------------------------------------------------------
(* timeSlotUtils.isTimeSlotAvailable *)

\* variant: only confirmed appointments block
isCandidateConfirmedOnly(appointment, staffId, date) ==
  appointment.staffId = staffId
    /\ appointment.date = date
    /\ appointment.status = "confirmed"

\* variant: the date is not compared
isCandidateAnyDate(appointment, staffId, date) ==
  appointment.staffId = staffId /\ appointment.status # "cancelled"

\* variant: the staff member is not compared
isCandidateAnyStaff(appointment, staffId, date) ==
  appointment.date = date /\ appointment.status # "cancelled"

\* the appointments the loop looks at: same staff member, same date, not cancelled
isCandidate(appointment, staffId, date) ==
  appointment.staffId = staffId
    /\ appointment.date = date
    /\ appointment.status # "cancelled"

\* variant: no 60-minute default
appointmentEndTimeNoDefault(appointment) ==
  IF Truthy(appointment.endTime) THEN appointment.endTime ELSE appointment.time

\* appointment.endTime || getAppointmentEndTime(appointment.time, 60)
appointmentEndTime(appointment) ==
  IF Truthy(appointment.endTime)
    THEN appointment.endTime
    ELSE getAppointmentEndTime(appointment.time, 60)

\* the for-of loop from position i on; FALSE is the early return
RECURSIVE isTimeSlotAvailableLoop(_, _, _, _, _, _)
isTimeSlotAvailableLoop(i, proposedStartTime, proposedEndTime, appts, staffId, date) ==
  IF i > Len(appts) THEN TRUE
  ELSE IF isCandidate(appts[i], staffId, date)
            /\ doTimeRangesOverlap(proposedStartTime, proposedEndTime,
                                   appts[i].time, appointmentEndTime(appts[i]))
    THEN FALSE
    ELSE isTimeSlotAvailableLoop(i + 1, proposedStartTime, proposedEndTime,
                                 appts, staffId, date)

isTimeSlotAvailable(proposedStartTime, serviceDuration, appts, staffId, date) ==
  LET proposedEndTime == getAppointmentEndTime(proposedStartTime, serviceDuration)
  IN isTimeSlotAvailableLoop(1, proposedStartTime, proposedEndTime, appts, staffId, date)

----------------------------------------------------------------------------
(* timeSlotUtils.generateAvailableTimeSlots *)

WeekdayNames ==
  <<"sunday", "monday", "tuesday", "wednesday", "thursday", "friday", "saturday">>

\* weekday of day number n of the proleptic calendar (1970-01-01 was a Thursday)
CalendarDayName(n) == WeekdayNames[((n + 4) % 7) + 1]

\* new Date("YYYY-MM-DD") is midnight UTC of that date, in minutes since the epoch
DateFromISODate(date) == date * 1440

\* toLocaleDateString("en-US", {weekday: "long"}).toLowerCase() in the machine's zone
dayNameLocal(instant) == CalendarDayName((instant + tz) \div 1440)

\* new Date(`2000-01-01T${hhmm}:00`): minutes of local time since 2000-01-01T00:00,
\* or InvalidDate when the text is not an ISO time
InvalidDate == 0 - 1

DateFromLocalTime(hhmm) ==
  IF Len(hhmm) = 5 /\ hhmm[3] = ":"
       /\ \A i \in {1, 2, 4, 5} : IsDigit(hhmm[i])
       /\ Number(SubSeq(hhmm, 4, 5)) <= 59
       /\ (Number(SubSeq(hhmm, 1, 2)) <= 23 \/ hhmm = <<"2", "4", ":", "0", "0">>)
    THEN Number(SubSeq(hhmm, 1, 2)) * 60 + Number(SubSeq(hhmm, 4, 5))
    ELSE InvalidDate

\* Date.prototype.toTimeString: "HH:MM:SS GMT..." of the local time of day
toTimeString(time) ==
  padStart(toString((time \div 60) % 24), 2, "0") \o <<":">>
    \o padStart(toString(time % 60), 2, "0") \o <<":", "0", "0", " ", "G", "M", "T">>

\* variant: a 15-minute grid
nextSlotTimeQuarter(time) == time + 15

\* variant: a 10-minute grid
nextSlotTimeTen(time) == time + 10

\* one step of the grid loop: time.setMinutes(time.getMinutes() + 30)
nextSlotTime(time) == time + 30

\* serviceEndTime <= end
serviceFits(time, serviceDuration, end) == time + serviceDuration <= end

\* the for loop from `time` on
RECURSIVE slotLoop(_, _, _, _, _, _)
slotLoop(time, end, serviceDuration, appts, staffId, date) ==
  IF time = InvalidDate \/ end = InvalidDate \/ ~(time < end) THEN <<>>
  ELSE LET timeString == slice0(toTimeString(time), 5)
           keep == serviceFits(time, serviceDuration, end)
                     /\ isTimeSlotAvailable(timeString, serviceDuration,
                                            appts, staffId, date)
       IN (IF keep THEN <<timeString>> ELSE <<>>)
            \o slotLoop(nextSlotTime(time), end, serviceDuration, appts, staffId, date)

\* staffMember.availability[dayName], or undefined when the map has no such key
availabilityOf(staffMember, dayName) ==
  IF dayName \in DOMAIN staffMember.availability
    THEN staffMember.availability[dayName]
    ELSE [available |-> FALSE, start |-> <<>>, end |-> <<>>]

generateAvailableTimeSlots(date, staffMember, service, appts) ==
  LET selectedDate == DateFromISODate(date)
      dayName == dayNameLocal(selectedDate)
      availability == availabilityOf(staffMember, dayName)
  IN IF ~availability.available THEN <<>>
     ELSE slotLoop(DateFromLocalTime(availability.start),
                   DateFromLocalTime(availability.end),
                   service.duration, appts, staffMember.id, date)

----------------------------------------------------------------------------
(* supabaseHelpers: the appointments table *)

\* calculateEndTime: the wall-clock text of today's Date at the start time moved
\* on by the duration (no clock change in between); the clock wraps at midnight
calculateEndTime(startTime, durationMinutes) ==
  LET parts == split(startTime, ":")
      startDate == Number(parts[1]) * 60 + Number(parts[2])
      endDate == startDate + durationMinutes
  IN slice0(toTimeString(endDate), 5)

\* status as stored ("scheduled" for "confirmed") and as read back
statusToDb(status) == IF status = "confirmed" THEN "scheduled" ELSE status
statusFromDb(status) == IF status = "scheduled" THEN "confirmed" ELSE status

\* the row createAppointment inserts; its position in db is its id
insertedRow(appointmentData, duration_minutes) ==
  [staff_id |-> appointmentData.staffSupabaseId,
   service_id |-> appointmentData.serviceSupabaseId,
   appointment_date |-> appointmentData.date,
   start_time |-> appointmentData.time,
   end_time |-> calculateEndTime(appointmentData.time, duration_minutes),
   status |-> statusToDb(appointmentData.status)]

\* the object createAppointment / getAppointments return for a row
rowToData(id, row) ==
  [id |-> id, staffId |-> row.staff_id, serviceId |-> row.service_id,
   date |-> row.appointment_date, time |-> row.start_time,
   endTime |-> row.end_time, status |-> statusFromDb(row.status)]

\* .order("appointment_date").order("start_time")
rowBefore(a, b) ==
  \/ a.date < b.date
  \/ a.date = b.date /\ timeToMinutes(a.time) < timeToMinutes(b.time)

\* supabaseHelpers.getAppointments: every row as the data handed to the session
getAppointments(rows) ==
  SortSeq([id \in DOMAIN rows |-> rowToData(id, rows[id])], rowBefore)

\* a key of an updates object is present
Has(updates, key) == key \in DOMAIN updates

\* supabaseHelpers.updateAppointment: the row after the update.  The keys that
\* `updates` does not carry are left alone, except end_time: it is written in
\* every case, as null when no time is given.
updatedRow(row, updates, duration_minutes) ==
  LET endTime == IF Has(updates, "time") /\ Truthy(updates.time)
                   THEN calculateEndTime(updates.time, duration_minutes)
                   ELSE null
  IN [row EXCEPT
        !.appointment_date = IF Has(updates, "date") THEN updates.date ELSE @,
        !.start_time = IF Has(updates, "time") THEN updates.time ELSE @,
        !.end_time = endTime,
        !.status = IF Has(updates, "status") THEN statusToDb(updates.status) ELSE @]

----------------------------------------------------------------------------
(* The session: React state and the handlers *)

\* transformDatabaseToUI.appointment
transformAppointment(dbAppointment) ==
  [dbAppointment EXCEPT
     !.endTime = IF dbAppointment.endTime # null /\ Truthy(dbAppointment.endTime)
                   THEN dbAppointment.endTime
                   ELSE dbAppointment.time]

\* { ...apt, ...updates }
mergeUpdates(apt, updates) ==
  [key \in DOMAIN apt |-> IF Has(updates, key) THEN updates[key] ELSE apt[key]]

----------------------------------------------------------------------------
(* Input domains *)

T0830 == <<"0", "8", ":", "3", "0">>
T0900 == <<"0", "9", ":", "0", "0">>
T0930 == <<"0", "9", ":", "3", "0">>
T1000 == <<"1", "0", ":", "0", "0">>
T1030 == <<"1", "0", ":", "3", "0">>
T1100 == <<"1", "1", ":", "0", "0">>
T1130 == <<"1", "1", ":", "3", "0">>
T1200 == <<"1", "2", ":", "0", "0">>
T1600 == <<"1", "6", ":", "0", "0">>
T1700 == <<"1", "7", ":", "0", "0">>
T2330 == <<"2", "3", ":", "3", "0">>

StaffIds == {"s1", "s2"}

\* 2024-01-14 (a Sunday) and 2024-01-15 (a Monday) as day numbers since 1970-01-01
Sunday14 == 19723 + 13   \* 2024-01-01 is day 19723
Monday15 == 19723 + 14
Dates == {Sunday14, Monday15}

\* offsets of America/Chicago (winter), UTC and Asia/Kolkata, in minutes east of UTC
TimezoneOffsets == {0 - 360, 0, 330}

Durations == {20, 30, 60}

Services ==
  {[id |-> "cut", duration |-> 30], [id |-> "color", duration |-> 60],
   [id |-> "trim", duration |-> 20]}

Day(start, end, available) == [start |-> start, end |-> end, available |-> available]

\* the availability getStaff gives a staff member with no stored availability
defaultAvailability ==
  [d \in {"saturday", "sunday", "monday"} |->
     CASE d = "saturday" -> Day(T1000, T1600, TRUE)
       [] d = "sunday" -> Day(<<>>, <<>>, FALSE)
       [] d = "monday" -> Day(T0900, T1700, TRUE)]

\* weekly availability maps: the default one, a closed Sunday, a missing Sunday
\* key, an inverted window
StaffMembers ==
  {[id |-> "s1", availability |-> defaultAvailability],
   [id |-> "s1",
    availability |->
      [d \in {"saturday", "sunday", "monday"} |->
         CASE d = "saturday" -> Day(T1000, T1200, TRUE)
           [] d = "sunday" -> Day(T0900, T1130, FALSE)
           [] d = "monday" -> Day(T0900, T1130, TRUE)]],
   [id |-> "s2",
    availability |->
      [d \in {"saturday", "monday"} |->
         CASE d = "saturday" -> Day(T0830, T1000, TRUE)
           [] d = "monday" -> Day(T0930, T1100, TRUE)]],
   [id |-> "s1",
    availability |->
      [d \in {"saturday", "sunday", "monday"} |->
         CASE d = "saturday" -> Day(T1100, T0900, TRUE)
           [] d = "sunday" -> Day(T1000, T1200, TRUE)
           [] d = "monday" -> Day(T0900, T1100, TRUE)]]}

Appt(id, staffId, serviceId, date, time, endTime, status) ==
  [id |-> id, staffId |-> staffId, serviceId |-> serviceId, date |-> date,
   time |-> time, endTime |-> endTime, status |-> status]

\* the appointments the engine is tried on
ApptUniverse ==
  {Appt("a", "s1", "color", Monday15, iv[1], iv[2], st) :
     iv \in {<<T0900, T1000>>, <<T1000, T1030>>, <<T1000, undefined>>, <<T0930, <<>>>>},
     st \in {"confirmed", "cancelled"}}
  \cup {Appt("a", "s1", "color", Monday15, T0900, T1000, st) : st \in {"completed", "no-show"}}
  \cup {Appt("a", "s2", "color", Monday15, T0900, T1000, "confirmed"),
        Appt("a", "s1", "color", Sunday14, T0900, T1000, "confirmed"),
        Appt("a", "s1", "color", Monday15, T1000, T1100, "confirmed")}

ProposedTimes == {T0830, T0900, T0930, T1000, T1030}

OverlapTimes == {T0900, T1000, T2330}

RECURSIVE SeqsUpTo(_, _)
SeqsUpTo(S, n) ==
  IF n = 0 THEN {<<>>}
  ELSE LET shorter == SeqsUpTo(S, n - 1)
       IN shorter \cup {Append(q, x) : q \in {r \in shorter : Len(r) = n - 1}, x \in S}

NoArgs ==
  [start |-> <<>>, duration |-> 0, staffId |-> "", date |-> 0,
   staffMember |-> "", end1 |-> <<>>, start2 |-> <<>>, end2 |-> <<>>,
   minutes |-> 0]

----------------------------------------------------------------------------
(* The handlers of one session *)

SessionTimes == {T0900, T0930, T1000}

SessionServices == {sv \in Services : sv.duration >= 30}

NoAction == [name |-> "none", outcome |-> "none"]

\* services.find((s) => s.id === serviceId)?.duration || 60
durationOrDefault(serviceId) ==
  IF \E sv \in SessionServices : sv.id = serviceId
    THEN (CHOOSE sv \in SessionServices : sv.id = serviceId).duration
    ELSE 60

\* duration_minutes of the services row
duration_minutes(serviceId) ==
  (CHOOSE sv \in SessionServices : sv.id = serviceId).duration

\* appointments.filter(apt => apt.id !== id)
withoutAppointment(list, id) == SelectSeq(list, LAMBDA apt : apt.id # id)

\* the empty date input (appointmentDate: "")
NoDate == 0

\* useState of callInForm; a selected service or stylist is kept by its id
NoCallInForm ==
  [selectedService |-> "", selectedStaff |-> "",
   appointmentDate |-> NoDate, appointmentTime |-> <<>>]

\* the browser sessions of the several-session runs
SessionIds == {"A", "B"}

NoBooking == [serviceId |-> "", staffId |-> "", date |-> NoDate, time |-> <<>>]

\* a session before its component has mounted
NoSession ==
  [pc |-> "unmounted", appointments |-> <<>>, booking |-> NoBooking,
   checkedAt |-> 0, outcome |-> "none", storageOk |-> TRUE, rowId |-> 0]

NoSessions == [s \in SessionIds |-> NoSession]

\* the calls of the submit handler that one session may have running at once
InvocationIds == {1, 2}

\* a call of the submit handler that has not been started
NoInvocation ==
  [pc |-> "idle", booking |-> NoBooking, inFlight |-> {}, rowId |-> 0,
   outcome |-> "none"]

NoInvocations == [i \in InvocationIds |-> NoInvocation]

Init ==
  /\ appointments = <<>>
  /\ db = <<>>
  /\ lastAction = NoAction
  /\ callInForm = NoCallInForm
  /\ sessions = NoSessions
  /\ invocations = NoInvocations
  /\ history = <<>>
  /\ tz = 0
  /\ retNumber = 0
  /\ existingAppointments = <<>>
  /\ op = "none"
  /\ args = NoArgs
  /\ retBool = FALSE
  /\ retSlots = <<>>

\* variant: the new appointment is put into the list before the storage call
\* and stays there when the call fails
BookOptimistic(name, service, staffId, date, time, storageOk) ==
  LET appointmentData ==
        [staffSupabaseId |-> staffId, serviceSupabaseId |-> service.id,
         date |-> date, time |-> time, status |-> "confirmed"]
      row == insertedRow(appointmentData, duration_minutes(service.id))
      newAppointment == transformAppointment(rowToData(Len(db) + 1, row))
  IN IF ~isTimeSlotAvailable(time, service.duration, appointments, staffId, date)
       THEN /\ lastAction' = [name |-> name, outcome |-> "rejected"]
            /\ UNCHANGED <<appointments, db>>
       ELSE /\ appointments' = Append(appointments, newAppointment)
            /\ db' = IF storageOk THEN Append(db, row) ELSE db
            /\ lastAction' = [name |-> name,
                              outcome |-> IF storageOk THEN "created" ELSE "error"]

\* the part the two booking handlers share: final check, then the storage calls;
\* storageOk is whether addCustomer and createAppointment both succeed
Book(name, service, staffId, date, time, storageOk) ==
  IF ~isTimeSlotAvailable(time, service.duration, appointments, staffId, date)
    THEN /\ lastAction' = [name |-> name, outcome |-> "rejected"]
         /\ UNCHANGED <<appointments, db>>
  ELSE IF ~storageOk
    THEN /\ lastAction' = [name |-> name, outcome |-> "error"]
         /\ UNCHANGED <<appointments, db>>
  ELSE LET appointmentData ==
             [staffSupabaseId |-> staffId, serviceSupabaseId |-> service.id,
              date |-> date, time |-> time, status |-> "confirmed"]
           row == insertedRow(appointmentData, duration_minutes(service.id))
           newAppointment == transformAppointment(rowToData(Len(db) + 1, row))
       IN /\ db' = Append(db, row)
          /\ appointments' = Append(appointments, newAppointment)
          /\ lastAction' = [name |-> name, outcome |-> "created"]

handleCustomerBookingSubmit ==
  \E service \in SessionServices, staffId \in StaffIds, date \in Dates,
     time \in SessionTimes, storageOk \in BOOLEAN :
    /\ Len(db) < MaxBookings
    /\ Book("handleCustomerBookingSubmit", service, staffId, date, time, storageOk)
    /\ UNCHANGED <<engineVars, callInForm, multiVars, tz>>

handleCreateCallInAppointment ==
  \E service \in SessionServices, staffId \in StaffIds, date \in Dates,
     time \in SessionTimes, storageOk \in BOOLEAN :
    /\ Len(db) < MaxBookings
    /\ Book("handleCreateCallInAppointment", service, staffId, date, time, storageOk)
    /\ UNCHANGED <<engineVars, callInForm, multiVars, tz>>

\* useProductionDataManagement.updateAppointment: the storage update, then on
\* success the merge of the updates into the session's record
updateAppointment(id, updates, storageOk) ==
  IF ~storageOk
    THEN UNCHANGED <<appointments, db>>
    ELSE /\ db' = [db EXCEPT ![id] = updatedRow(@, updates, duration_minutes(@.service_id))]
         /\ appointments' =
              [k \in DOMAIN appointments |->
                 IF appointments[k].id = id
                   THEN mergeUpdates(appointments[k], updates)
                   ELSE appointments[k]]

handleEditAppointment ==
  \E k \in DOMAIN appointments, date \in Dates, time \in SessionTimes,
     storageOk \in BOOLEAN :
    LET editingAppointment == appointments[k]
        isAvailable ==
          isTimeSlotAvailable(time, durationOrDefault(editingAppointment.serviceId),
                              withoutAppointment(appointments, editingAppointment.id),
                              editingAppointment.staffId, date)
    IN /\ IF ~isAvailable
            THEN /\ lastAction' = [name |-> "handleEditAppointment", outcome |-> "rejected"]
                 /\ UNCHANGED <<appointments, db>>
            ELSE /\ updateAppointment(editingAppointment.id,
                                      [date |-> date, time |-> time], storageOk)
                 /\ lastAction' = [name |-> "handleEditAppointment",
                                   outcome |-> IF storageOk THEN "updated" ELSE "error"]
       /\ UNCHANGED <<engineVars, callInForm, multiVars, tz>>

\* the Cancel button is shown for confirmed appointments only
handleCancelAppointment ==
  \E k \in DOMAIN appointments, storageOk \in BOOLEAN :
    /\ appointments[k].status = "confirmed"
    /\ updateAppointment(appointments[k].id,
                         [status |-> "cancelled"], storageOk)
    /\ lastAction' = [name |-> "handleCancelAppointment",
                      outcome |-> IF storageOk THEN "cancelled" ELSE "error"]
    /\ UNCHANGED <<engineVars, callInForm, multiVars, tz>>

\* the admin view's 10-second poll: the list is replaced by the stored rows as
\* getAppointments returns them (transformDatabaseToUI is not applied here)
pollAppointments ==
  /\ appointments' = getAppointments(db)
  /\ lastAction' = [name |-> "pollAppointments", outcome |-> "loaded"]
  /\ UNCHANGED <<db, engineVars, callInForm, multiVars, tz>>

Next ==
  \/ handleCustomerBookingSubmit
  \/ handleCreateCallInAppointment
  \/ handleEditAppointment
  \/ handleCancelAppointment
  \/ pollAppointments

Spec == Init /\ [][Next]_vars

----------------------------------------------------------------------------
(* The call-in modal of one session: the form, input by input, and its submit *)

\* the session's state `staff`: two stylists with different Monday hours
staff ==
  {m \in StaffMembers :
     m.availability["monday"] \in {Day(T0900, T1130, TRUE), Day(T0930, T1100, TRUE)}}

\* staff.find(s => s.id === e.target.value)
findStaff(id) == CHOOSE m \in staff : m.id = id

\* services.find(s => s.id === e.target.value)
findService(id) == CHOOSE sv \in SessionServices : sv.id = id

\* the Service select
selectService ==
  \E id \in {sv.id : sv \in SessionServices} \cup {""} :
    /\ callInForm' = [callInForm EXCEPT !.selectedService = id]
    /\ UNCHANGED <<sessionVars, engineVars, multiVars, tz>>

\* the Stylist select
selectStaff ==
  \E id \in {m.id : m \in staff} \cup {""} :
    /\ callInForm' = [callInForm EXCEPT !.selectedStaff = id]
    /\ UNCHANGED <<sessionVars, engineVars, multiVars, tz>>

\* the date input
setAppointmentDate ==
  \E date \in Dates \cup {NoDate} :
    /\ callInForm' = [callInForm EXCEPT !.appointmentDate = date]
    /\ UNCHANGED <<sessionVars, engineVars, multiVars, tz>>

\* the options of the Available Times select, rendered once a date, a stylist
\* and a service are chosen
availableSlots ==
  generateAvailableTimeSlots(callInForm.appointmentDate,
                             findStaff(callInForm.selectedStaff),
                             findService(callInForm.selectedService),
                             appointments)

\* the Available Times select: one of the offered slots, or "Select a time..."
selectAppointmentTime ==
  /\ callInForm.appointmentDate # NoDate
  /\ callInForm.selectedStaff # ""
  /\ callInForm.selectedService # ""
  /\ availableSlots # <<>>
  /\ \E time \in {availableSlots[k] : k \in DOMAIN availableSlots} \cup {<<>>} :
       callInForm' = [callInForm EXCEPT !.appointmentTime = time]
  /\ UNCHANGED <<sessionVars, engineVars, multiVars, tz>>

\* the Create Appointment button (disabled until every field is filled) and
\* handleCreateCallInAppointment on the form as it stands; the form is reset
\* when the appointment has been created
submitCallInForm ==
  \E storageOk \in BOOLEAN :
    LET service == findService(callInForm.selectedService)
        created == /\ isTimeSlotAvailable(callInForm.appointmentTime, service.duration,
                                          appointments, callInForm.selectedStaff,
                                          callInForm.appointmentDate)
                   /\ storageOk
    IN /\ callInForm.selectedService # ""
       /\ callInForm.selectedStaff # ""
       /\ callInForm.appointmentDate # NoDate
       /\ callInForm.appointmentTime # <<>>
       /\ Len(db) < MaxBookings
       /\ Book("handleCreateCallInAppointment", service, callInForm.selectedStaff,
               callInForm.appointmentDate, callInForm.appointmentTime, storageOk)
       /\ callInForm' = IF created THEN NoCallInForm ELSE callInForm
       /\ UNCHANGED <<engineVars, multiVars, tz>>

NextCallIn ==
  \/ selectService
  \/ selectStaff
  \/ setAppointmentDate
  \/ selectAppointmentTime
  \/ submitCallInForm
  \/ pollAppointments

SpecCallIn == Init /\ [][NextCallIn]_vars

----------------------------------------------------------------------------
(* Several sessions on one store, one handler step at a time *)

BookingDates == {Monday15}
BookingTimes == {T0900, T0930}

StoredRow(staffId, serviceId, date, time, end, status) ==
  [staff_id |-> staffId, service_id |-> serviceId, appointment_date |-> date,
   start_time |-> time, end_time |-> end, status |-> status]

\* what the table holds when the sessions start: nothing, or one appointment
\* stored without an end time
InitialStores ==
  {<<>>, <<StoredRow("s1", "cut", Monday15, T0900, null, "scheduled")>>}

\* a row that no session of the run created
Preexisting == [session |-> "", checkedAt |-> 0]

InitSessions ==
  /\ db \in InitialStores
  /\ history = [id \in DOMAIN db |-> Preexisting]
  /\ sessions = NoSessions
  /\ invocations = NoInvocations
  /\ appointments = <<>>
  /\ lastAction = NoAction
  /\ callInForm = NoCallInForm
  /\ tz = 0
  /\ existingAppointments = <<>>
  /\ op = "none"
  /\ args = NoArgs
  /\ retBool = FALSE
  /\ retSlots = <<>>
  /\ retNumber = 0

\* appointmentsResult.data.map(transformDatabaseToUI.appointment)
transformedAppointments(data) ==
  [k \in DOMAIN data |-> transformAppointment(data[k])]

\* loadInitialData, run once when the component mounts; when the connection
\* test or the appointments query fails the list stays empty
loadInitialData(s) ==
  \E loadOk \in BOOLEAN :
    /\ sessions[s].pc = "unmounted"
    /\ sessions' =
         [sessions EXCEPT
            ![s].pc = "ready",
            ![s].appointments =
               IF loadOk THEN transformedAppointments(getAppointments(db)) ELSE <<>>]
    /\ UNCHANGED <<db, history, appointments, lastAction, callInForm, engineVars,
                 invocations, tz>>

\* the admin view's poll in session s
pollAppointmentsIn(s) ==
  /\ sessions[s].pc # "unmounted"
  /\ sessions' = [sessions EXCEPT ![s].appointments = getAppointments(db)]
  /\ UNCHANGED <<db, history, appointments, lastAction, callInForm, engineVars,
                 invocations, tz>>

\* bookings checked and not yet written or given up
Pending == {s \in SessionIds : sessions[s].pc = "pending"}

\* a booking handler up to its first await: the final availability check on the
\* list of the render the handler was created in
submitCheck(s) ==
  \E service \in SessionServices, staffId \in StaffIds, date \in BookingDates,
     time \in BookingTimes :
    LET booking == [serviceId |-> service.id, staffId |-> staffId,
                    date |-> date, time |-> time]
        isAvailable == isTimeSlotAvailable(time, service.duration,
                                           sessions[s].appointments, staffId, date)
    IN /\ sessions[s].pc = "ready"
       /\ Len(db) + Cardinality(Pending) < MaxBookings
       /\ sessions' =
            [sessions EXCEPT
               ![s].booking = booking,
               ![s].checkedAt = Len(db),
               ![s].rowId = 0,
               ![s].storageOk = TRUE,
               ![s].outcome = IF isAvailable THEN "none" ELSE "rejected",
               ![s].pc = IF isAvailable THEN "pending" ELSE "ready"]
       /\ UNCHANGED <<db, history, appointments, lastAction, callInForm, engineVars,
                 invocations, tz>>

insertAcceptedIfFree(rows, row) ==
  \A id \in DOMAIN rows :
    ( /\ rows[id].staff_id = row.staff_id
      /\ rows[id].appointment_date = row.appointment_date
      /\ rows[id].status # "cancelled" )
    => ~doTimeRangesOverlap(row.start_time, row.end_time,
                            rows[id].start_time,
                            IF rows[id].end_time = null
                              THEN rows[id].start_time ELSE rows[id].end_time)

\* supabase.from("appointments").insert(...): the insert carries no condition on
\* the rows already stored
insertAccepted(rows, row) == TRUE

\* databaseHelpers.createAppointment as called by the handler of session s
submitStore(s) ==
  \E storageOk \in BOOLEAN :
    LET booking == sessions[s].booking
        appointmentData ==
          [staffSupabaseId |-> booking.staffId, serviceSupabaseId |-> booking.serviceId,
           date |-> booking.date, time |-> booking.time, status |-> "confirmed"]
        row == insertedRow(appointmentData, duration_minutes(booking.serviceId))
    IN /\ sessions[s].pc = "pending"
       /\ IF storageOk /\ insertAccepted(db, row)
            THEN /\ db' = Append(db, row)
                 /\ history' = Append(history, [session |-> s,
                                                checkedAt |-> sessions[s].checkedAt])
                 /\ sessions' = [sessions EXCEPT ![s].pc = "inserted",
                                                 ![s].rowId = Len(db) + 1]
            ELSE /\ sessions' = [sessions EXCEPT ![s].pc = "ready",
                                                 ![s].outcome = "error",
                                                 ![s].storageOk = storageOk]
                 /\ UNCHANGED <<db, history>>
       /\ UNCHANGED <<appointments, lastAction, callInForm, engineVars,
                      invocations, tz>>

\* the handler after createAppointment has resolved:
\* setAppointments((prev) => [...prev, newAppointment])
submitFinish(s) ==
  LET id == sessions[s].rowId
      newAppointment == transformAppointment(rowToData(id, db[id]))
  IN /\ sessions[s].pc = "inserted"
     /\ sessions' =
          [sessions EXCEPT
             ![s].appointments = Append(@, newAppointment),
             ![s].outcome = "created",
             ![s].pc = "ready"]
     /\ UNCHANGED <<db, history, appointments, lastAction, callInForm, engineVars,
                 invocations, tz>>

NextSessions ==
  \E s \in SessionIds :
    \/ loadInitialData(s)
    \/ pollAppointmentsIn(s)
    \/ submitCheck(s)
    \/ submitStore(s)
    \/ submitFinish(s)

SpecSessions == InitSessions /\ [][NextSessions]_vars

----------------------------------------------------------------------------
(* One session whose submit button is pressed again while the handler runs *)

\* the calls of the handler that are waiting for their storage calls
InFlight == {j \in InvocationIds : invocations[j].pc = "pending"}

\* a press of "Confirm Booking": handleCustomerBookingSubmit up to its first
\* await.  The button is disabled only while a field is empty, and the handler
\* checks the `appointments` of the render it was created in.
submitStart(i) ==
  \E service \in SessionServices, staffId \in StaffIds, date \in BookingDates,
     time \in BookingTimes :
    LET booking == [serviceId |-> service.id, staffId |-> staffId,
                    date |-> date, time |-> time]
        isAvailable == isTimeSlotAvailable(time, service.duration, appointments,
                                           staffId, date)
    IN /\ invocations[i].pc = "idle"
       /\ invocations' =
            [invocations EXCEPT
               ![i] = [pc |-> IF isAvailable THEN "pending" ELSE "returned",
                       booking |-> booking,
                       inFlight |-> InFlight,
                       rowId |-> 0,
                       outcome |-> IF isAvailable THEN "none" ELSE "rejected"]]
       /\ UNCHANGED <<appointments, db, lastAction, callInForm, engineVars,
                      sessions, history, tz>>

\* await databaseHelpers.createAppointment(appointmentData) of call i
submitAwait(i) ==
  \E storageOk \in BOOLEAN :
    LET booking == invocations[i].booking
        appointmentData ==
          [staffSupabaseId |-> booking.staffId, serviceSupabaseId |-> booking.serviceId,
           date |-> booking.date, time |-> booking.time, status |-> "confirmed"]
        row == insertedRow(appointmentData, duration_minutes(booking.serviceId))
    IN /\ invocations[i].pc = "pending"
       /\ IF storageOk /\ insertAccepted(db, row)
            THEN /\ db' = Append(db, row)
                 /\ invocations' = [invocations EXCEPT ![i].pc = "inserted",
                                                       ![i].rowId = Len(db) + 1]
            ELSE /\ invocations' = [invocations EXCEPT ![i].pc = "returned",
                                                       ![i].outcome = "error"]
                 /\ UNCHANGED db
       /\ UNCHANGED <<appointments, lastAction, callInForm, engineVars,
                      sessions, history, tz>>

\* call i after createAppointment has resolved:
\* setAppointments((prev) => [...prev, newAppointment])
submitResume(i) ==
  LET id == invocations[i].rowId
      newAppointment == transformAppointment(rowToData(id, db[id]))
  IN /\ invocations[i].pc = "inserted"
     /\ appointments' = Append(appointments, newAppointment)
     /\ invocations' = [invocations EXCEPT ![i].pc = "returned",
                                           ![i].outcome = "created"]
     /\ UNCHANGED <<db, lastAction, callInForm, engineVars, sessions, history, tz>>

NextSubmit ==
  \E i \in InvocationIds :
    \/ submitStart(i)
    \/ submitAwait(i)
    \/ submitResume(i)

SpecSubmit == Init /\ [][NextSubmit]_vars

----------------------------------------------------------------------------
(* The engine applied once to drawn inputs *)

InitEngine ==
  /\ existingAppointments \in SeqsUpTo(ApptUniverse, MaxAppts)
  /\ tz \in TimezoneOffsets
  /\ op = "none"
  /\ args = NoArgs
  /\ retBool = FALSE
  /\ retSlots = <<>>
  /\ retNumber = 0
  /\ appointments = <<>>
  /\ db = <<>>
  /\ lastAction = NoAction
  /\ callInForm = NoCallInForm
  /\ sessions = NoSessions
  /\ invocations = NoInvocations
  /\ history = <<>>

CallDoTimeRangesOverlap ==
  \E start1 \in OverlapTimes, end1 \in OverlapTimes,
     start2 \in OverlapTimes, end2 \in OverlapTimes :
    /\ op = "none"
    /\ op' = "doTimeRangesOverlap"
    /\ args' = [NoArgs EXCEPT !.start = start1, !.end1 = end1,
                              !.start2 = start2, !.end2 = end2]
    /\ retBool' = doTimeRangesOverlap(start1, end1, start2, end2)
    /\ retSlots' = <<>>
    /\ retNumber' = 0
    /\ UNCHANGED <<existingAppointments, tz, sessionVars, callInForm, multiVars>>

CallIsTimeSlotAvailable ==
  \E start \in ProposedTimes, duration \in Durations,
     staffId \in StaffIds, date \in Dates :
    /\ op = "none"
    /\ op' = "isTimeSlotAvailable"
    /\ args' = [NoArgs EXCEPT !.start = start, !.duration = duration,
                              !.staffId = staffId, !.date = date]
    /\ retBool' = isTimeSlotAvailable(start, duration, existingAppointments,
                                      staffId, date)
    /\ retSlots' = <<>>
    /\ retNumber' = 0
    /\ UNCHANGED <<existingAppointments, tz, sessionVars, callInForm, multiVars>>

CallGenerateAvailableTimeSlots ==
  \E date \in Dates, staffMember \in StaffMembers, service \in Services :
    /\ op = "none"
    /\ op' = "generateAvailableTimeSlots"
    /\ args' = [NoArgs EXCEPT !.date = date, !.duration = service.duration,
                              !.staffMember = staffMember]
    /\ retSlots' = generateAvailableTimeSlots(date, staffMember, service,
                                              existingAppointments)
    /\ retBool' = FALSE
    /\ retNumber' = 0
    /\ UNCHANGED <<existingAppointments, tz, sessionVars, callInForm, multiVars>>

NextEngine ==
  \/ CallDoTimeRangesOverlap
  \/ CallIsTimeSlotAvailable
  \/ CallGenerateAvailableTimeSlots

SpecEngine == InitEngine /\ [][NextEngine]_vars

----------------------------------------------------------------------------
(* The engine applied twice to the same arguments *)

\* the next invocation runs where the local timezone is another one (another
\* browser, or the machine's zone setting changed)
changeTimezone ==
  /\ op # "none"
  /\ tz' \in TimezoneOffsets \ {tz}
  /\ UNCHANGED <<engineVars, sessionVars, callInForm, multiVars>>

\* the function applied last is applied again to the same arguments
CallAgain ==
  /\ op \in {"isTimeSlotAvailable", "generateAvailableTimeSlots"}
  /\ retBool' =
       IF op = "isTimeSlotAvailable"
         THEN isTimeSlotAvailable(args.start, args.duration, existingAppointments,
                                  args.staffId, args.date)
         ELSE FALSE
  /\ retSlots' =
       IF op = "generateAvailableTimeSlots"
         THEN generateAvailableTimeSlots(args.date, args.staffMember,
                                         [id |-> "", duration |-> args.duration],
                                         existingAppointments)
         ELSE <<>>
  /\ UNCHANGED <<existingAppointments, op, args, retNumber, tz, sessionVars,
                 callInForm, multiVars>>

NextTwice ==
  \/ CallIsTimeSlotAvailable
  \/ CallGenerateAvailableTimeSlots
  \/ changeTimezone
  \/ CallAgain

SpecTwice == InitEngine /\ [][NextTwice]_vars

----------------------------------------------------------------------------
(* The time conversions applied to every minute of the day *)

InitClock ==
  /\ op = "none"
  /\ args = NoArgs
  /\ retBool = FALSE
  /\ retSlots = <<>>
  /\ retNumber = 0
  /\ existingAppointments = <<>>
  /\ tz = 0
  /\ appointments = <<>>
  /\ db = <<>>
  /\ lastAction = NoAction
  /\ callInForm = NoCallInForm
  /\ sessions = NoSessions
  /\ invocations = NoInvocations
  /\ history = <<>>

\* minutesToTime(m); the text returned is kept as the one element of retSlots
CallMinutesToTime ==
  \E m \in 0..MaxMinute :
    /\ op = "none"
    /\ op' = "minutesToTime"
    /\ args' = [NoArgs EXCEPT !.minutes = m]
    /\ retSlots' = <<minutesToTime(m)>>
    /\ UNCHANGED <<existingAppointments, retBool, retNumber, tz, sessionVars,
                   callInForm, multiVars>>

\* timeToMinutes applied to the text minutesToTime returned
CallTimeToMinutes ==
  /\ op = "minutesToTime"
  /\ op' = "timeToMinutes"
  /\ args' = [args EXCEPT !.start = retSlots[1]]
  /\ retNumber' = timeToMinutes(retSlots[1])
  /\ UNCHANGED <<existingAppointments, retBool, retSlots, tz, sessionVars,
                 callInForm, multiVars>>

NextClock ==
  \/ CallMinutesToTime
  \/ CallTimeToMinutes

SpecClock == InitClock /\ [][NextClock]_vars

----------------------------------------------------------------------------
(* Reference notions used to state the properties *)

\* minutes since midnight of a well-formed "HH:MM" text, read digit by digit
MinutesOf(t) ==
  (DigitValue(t[1]) * 10 + DigitValue(t[2])) * 60
    + DigitValue(t[4]) * 10 + DigitValue(t[5])

\* the "HH:MM" text of a minute count below 100 hours
ClockText(m) ==
  <<DigitChars[(m \div 600) + 1], DigitChars[((m \div 60) % 10) + 1], ":",
    DigitChars[((m % 60) \div 10) + 1], DigitChars[(m % 10) + 1]>>

Larger(a, b) == IF a > b THEN a ELSE b
Smaller(a, b) == IF a < b THEN a ELSE b

\* the half-open minute intervals [a, b) and [c, d) have a minute in common
Intersect(a, b, c, d) == Larger(a, c) < Smaller(b, d)

\* end of the interval an appointment occupies: its endTime, else 60 minutes on
EffectiveEnd(apt) ==
  IF apt.endTime # undefined /\ apt.endTime # null /\ apt.endTime # <<>>
    THEN MinutesOf(apt.endTime)
    ELSE MinutesOf(apt.time) + 60

\* appointment i of the list blocks staff member staffId on the date
Blocking(list, i, staffId, date) ==
  /\ list[i].staffId = staffId
  /\ list[i].date = date
  /\ list[i].status # "cancelled"

Indices(list) == 1..Len(list)

WithoutCancelled(list) == SelectSeq(list, LAMBDA apt : apt.status # "cancelled")

WithStatus(list, i, status) == [list EXCEPT ![i].status = status]

CalledIsTimeSlotAvailable == op = "isTimeSlotAvailable"
CalledGenerate == op = "generateAvailableTimeSlots"
CalledOverlap == op = "doTimeRangesOverlap"

----------------------------------------------------------------------------
(* Properties of the session, checked under Spec *)

\* the interval a stored appointment occupies: its start, and its start plus the
\* duration of its service
RowStart(row) == MinutesOf(row.start_time)
RowEnd(row) == MinutesOf(row.start_time) + duration_minutes(row.service_id)

\* C1: after any sequence of customer bookings, call-in bookings, edits and
\* cancellations of one session, no two stored appointments with the same staff
\* member, the same date and a status other than cancelled occupy intervals
\* [time, time + service duration) that have a minute in common.
C1_NoDoubleBooking ==
  \A i \in DOMAIN db : \A j \in DOMAIN db :
    ( /\ i < j
      /\ db[i].staff_id = db[j].staff_id
      /\ db[i].appointment_date = db[j].appointment_date
      /\ db[i].status # "cancelled"
      /\ db[j].status # "cancelled" )
    => ~Intersect(RowStart(db[i]), RowEnd(db[i]), RowStart(db[j]), RowEnd(db[j]))

----------------------------------------------------------------------------
(* Properties of the engine, checked under SpecEngine *)

\* C2: isTimeSlotAvailable returns false if and only if some appointment of the
\* list with the same staffId, the same date and a status other than cancelled
\* occupies an interval [time, effective end) that has a minute in common with
\* [proposedStart, proposedStart + serviceDuration); otherwise it returns true.
C2_AvailableIffNoConflict ==
  CalledIsTimeSlotAvailable =>
    (retBool = FALSE <=>
       \E i \in Indices(existingAppointments) :
         /\ Blocking(existingAppointments, i, args.staffId, args.date)
         /\ Intersect(MinutesOf(args.start), MinutesOf(args.start) + args.duration,
                      MinutesOf(existingAppointments[i].time),
                      EffectiveEnd(existingAppointments[i])))

\* C2 witness: a two-appointment list whose first appointment does not conflict
\* and whose second one does, so the slot is refused
C2_Witness ==
  /\ CalledIsTimeSlotAvailable
  /\ retBool = FALSE
  /\ Len(existingAppointments) = 2
  /\ Blocking(existingAppointments, 1, args.staffId, args.date)
  /\ ~Intersect(MinutesOf(args.start), MinutesOf(args.start) + args.duration,
                MinutesOf(existingAppointments[1].time),
                EffectiveEnd(existingAppointments[1]))

\* C3: doTimeRangesOverlap(start1, end1, start2, end2) is true exactly when
\* start1 < end2 and start2 < end1, the four times compared as minutes since
\* midnight.
C3_OverlapIsStrictComparison ==
  CalledOverlap =>
    (retBool <=> (MinutesOf(args.start) < MinutesOf(args.end2)
                    /\ MinutesOf(args.start2) < MinutesOf(args.end1)))

\* C3 witness: two different ranges reported as overlapping, one of them ending
\* late in the day
C3_Witness ==
  /\ CalledOverlap
  /\ retBool
  /\ args.start # args.start2
  /\ args.end1 = T2330

\* C4: back-to-back is never a conflict.  A proposed slot that starts at the end
\* of, or ends at the start of, the only appointment of the staff member on the
\* date (a non-cancelled one) is available; and doTimeRangesOverlap(a, b, b, c)
\* is false for a < b < c.
C4_BackToBackNeverConflicts ==
  /\ CalledIsTimeSlotAvailable =>
       \A i \in Indices(existingAppointments) :
         ( /\ Blocking(existingAppointments, i, args.staffId, args.date)
           /\ \A j \in Indices(existingAppointments) \ {i} :
                ~(existingAppointments[j].staffId = args.staffId
                    /\ existingAppointments[j].date = args.date)
           /\ \/ MinutesOf(args.start) = EffectiveEnd(existingAppointments[i])
              \/ MinutesOf(args.start) + args.duration
                   = MinutesOf(existingAppointments[i].time) )
         => retBool = TRUE
  /\ ( /\ CalledOverlap
       /\ args.end1 = args.start2
       /\ MinutesOf(args.start) < MinutesOf(args.end1)
       /\ MinutesOf(args.start2) < MinutesOf(args.end2) )
     => retBool = FALSE

\* C4 witness: a slot proposed to start exactly when the staff member's only
\* appointment of the date ends, found available
C4_Witness ==
  /\ CalledIsTimeSlotAvailable
  /\ retBool = TRUE
  /\ \E i \in Indices(existingAppointments) :
       /\ Blocking(existingAppointments, i, args.staffId, args.date)
       /\ MinutesOf(args.start) = EffectiveEnd(existingAppointments[i])
       /\ \A j \in Indices(existingAppointments) \ {i} :
            ~(existingAppointments[j].staffId = args.staffId
                /\ existingAppointments[j].date = args.date)

\* C5: the status matters only as cancelled / not cancelled.  The result equals
\* the result on the list with every cancelled appointment removed, and giving a
\* non-cancelled appointment any of the statuses confirmed, completed, no-show
\* does not change the result.
C5_StatusOnlyCancelledMatters ==
  CalledIsTimeSlotAvailable =>
    /\ retBool = isTimeSlotAvailable(args.start, args.duration,
                                     WithoutCancelled(existingAppointments),
                                     args.staffId, args.date)
    /\ \A i \in Indices(existingAppointments) :
         existingAppointments[i].status # "cancelled" =>
           \A status \in {"confirmed", "completed", "no-show"} :
             retBool = isTimeSlotAvailable(args.start, args.duration,
                                           WithStatus(existingAppointments, i, status),
                                           args.staffId, args.date)

\* C5 witness: a slot that only a cancelled appointment covers is available, in
\* a list that also holds a completed or no-show appointment of the same staff
\* member and date
C5_Witness ==
  /\ CalledIsTimeSlotAvailable
  /\ retBool = TRUE
  /\ \E i \in Indices(existingAppointments) :
       /\ existingAppointments[i].status = "cancelled"
       /\ existingAppointments[i].staffId = args.staffId
       /\ existingAppointments[i].date = args.date
       /\ Intersect(MinutesOf(args.start), MinutesOf(args.start) + args.duration,
                    MinutesOf(existingAppointments[i].time),
                    EffectiveEnd(existingAppointments[i]))
  /\ \E j \in Indices(existingAppointments) :
       /\ existingAppointments[j].status \in {"completed", "no-show"}
       /\ existingAppointments[j].staffId = args.staffId
       /\ existingAppointments[j].date = args.date

\* the availability record generateAvailableTimeSlots reads for its arguments
LookedUpDay == availabilityOf(args.staffMember, dayNameLocal(DateFromISODate(args.date)))

\* the availability record of the weekday the calendar date falls on
CalendarDay == availabilityOf(args.staffMember, CalendarDayName(args.date))

\* the grid starts of a window that leave room for the service and are free
ExpectedSlotMinutes(day) ==
  {s \in MinutesOf(day.start)..(MinutesOf(day.end) - 1) :
     /\ (s - MinutesOf(day.start)) % 30 = 0
     /\ s + args.duration <= MinutesOf(day.end)
     /\ isTimeSlotAvailable(ClockText(s), args.duration, existingAppointments,
                            args.staffMember.id, args.date)}

\* C6: for a working day, generateAvailableTimeSlots returns exactly the start
\* times s = dayStart + 30*k with s < dayEnd, s + service.duration <= dayEnd and
\* isTimeSlotAvailable(s, ...) true, as zero-padded texts in strictly ascending
\* order (hence without duplicates), whatever the service duration; dayStart and
\* dayEnd are the bounds of the availability record the function reads.
C6_SlotsAreExactlyTheFreeGridStarts ==
  (CalledGenerate /\ LookedUpDay.available) =>
    /\ \A k \in Indices(retSlots) : retSlots[k] = ClockText(MinutesOf(retSlots[k]))
    /\ \A k \in 1..(Len(retSlots) - 1) :
         MinutesOf(retSlots[k]) < MinutesOf(retSlots[k + 1])
    /\ {MinutesOf(retSlots[k]) : k \in Indices(retSlots)} = ExpectedSlotMinutes(LookedUpDay)

\* C6 witness: a 20-minute service gets half-hour starts only, with a gap in the
\* result where an appointment blocks the grid
C6_Witness ==
  /\ CalledGenerate
  /\ LookedUpDay.available
  /\ args.duration = 20
  /\ Len(retSlots) >= 3
  /\ \E k \in 1..(Len(retSlots) - 1) :
       MinutesOf(retSlots[k + 1]) - MinutesOf(retSlots[k]) > 30

\* C7: no start time returned by generateAvailableTimeSlots for a date lies before
\* the start of the availability window of that date's weekday, and none has
\* start + service.duration after that window's end.
C7_SlotsFitTheDateWindow ==
  (CalledGenerate /\ CalendarDay.available) =>
    \A k \in Indices(retSlots) :
      /\ MinutesOf(CalendarDay.start) <= MinutesOf(retSlots[k])
      /\ MinutesOf(retSlots[k]) + args.duration <= MinutesOf(CalendarDay.end)

\* C8: when the availability record of the date's weekday has available = false,
\* or the availability map has no record for that weekday,
\* generateAvailableTimeSlots returns an empty sequence.
C8_ClosedDayHasNoSlots ==
  (CalledGenerate /\ ~CalendarDay.available) => retSlots = <<>>

\* C9: whatever the machine's timezone, generateAvailableTimeSlots looks up the
\* availability record of the weekday the calendar date itself falls on.
C9_WeekdayIsTheDatesOwn ==
  CalledGenerate => dayNameLocal(DateFromISODate(args.date)) = CalendarDayName(args.date)

\* C10: an appointment without endTime (absent or empty) occupies
\* [time, time + 60 minutes): when the staff member's non-cancelled appointments
\* of the date all lack an endTime, a proposed slot is refused exactly when it has
\* a minute in common with the 60 minutes that follow the start of one of them.
C10_MissingEndTimeMeansSixtyMinutes ==
  ( /\ CalledIsTimeSlotAvailable
    /\ \A i \in Indices(existingAppointments) :
         Blocking(existingAppointments, i, args.staffId, args.date)
           => existingAppointments[i].endTime \in {undefined, <<>>} )
  => (retBool = FALSE <=>
        \E i \in Indices(existingAppointments) :
          /\ Blocking(existingAppointments, i, args.staffId, args.date)
          /\ Intersect(MinutesOf(args.start), MinutesOf(args.start) + args.duration,
                       MinutesOf(existingAppointments[i].time),
                       MinutesOf(existingAppointments[i].time) + 60))

\* C10 witness: a slot proposed 30 minutes after the start of the staff member's
\* only appointment of the date, one that has no endTime, is refused
C10_Witness ==
  /\ CalledIsTimeSlotAvailable
  /\ retBool = FALSE
  /\ \E i \in Indices(existingAppointments) :
       /\ Blocking(existingAppointments, i, args.staffId, args.date)
       /\ existingAppointments[i].endTime = undefined
       /\ MinutesOf(args.start) = MinutesOf(existingAppointments[i].time) + 30
       /\ \A j \in Indices(existingAppointments) \ {i} :
            ~Blocking(existingAppointments, j, args.staffId, args.date)

----------------------------------------------------------------------------
(* Properties of the edit flow, checked under Spec *)

\* a stored appointment other than id, of id's staff member, on the date and not
\* cancelled, occupies an interval that has a minute in common with [from, to)
OtherRowOverlaps(rows, id, date, from, to) ==
  \E j \in DOMAIN rows :
    /\ j # id
    /\ rows[j].staff_id = rows[id].staff_id
    /\ rows[j].appointment_date = date
    /\ rows[j].status # "cancelled"
    /\ Intersect(from, to, RowStart(rows[j]), RowEnd(rows[j]))

\* the check handleEditAppointment makes for appointment k of the list moved to
\* the time on the date
EditCheck(k, date, time) ==
  isTimeSlotAvailable(time, durationOrDefault(appointments[k].serviceId),
                      withoutAppointment(appointments, appointments[k].id),
                      appointments[k].staffId, date)

\* a move of an appointment, on its date, to a time whose interval meets the
\* appointment's own stored interval and no other one passes the check
C11_OwnIntervalIsFree ==
  \A k \in DOMAIN appointments : \A time \in SessionTimes :
    LET id == appointments[k].id
        from == MinutesOf(time)
        to == from + duration_minutes(db[id].service_id)
    IN ( /\ Intersect(from, to, RowStart(db[id]), RowEnd(db[id]))
         /\ ~OtherRowOverlaps(db, id, db[id].appointment_date, from, to) )
       => EditCheck(k, db[id].appointment_date, time)

\* an edit step changes a stored appointment only to an interval that no other
\* non-cancelled appointment of its staff member on the new date meets
C11_OverlappingEditChangesNothing ==
  lastAction'.name = "handleEditAppointment"
    => \A id \in DOMAIN db :
         db'[id] # db[id]
           => ~OtherRowOverlaps(db', id, db'[id].appointment_date,
                                RowStart(db'[id]), RowEnd(db'[id]))

\* C11: in the edit flow the offered times and the final check are computed on
\* the list without the appointment being edited, so a move onto a time that
\* overlaps only the appointment's own current interval is accepted, and a move
\* that overlaps another non-cancelled appointment of the same staff member on
\* the new date is rejected and leaves the appointment unchanged.
C11_EditExcludesOnlyItself ==
  []C11_OwnIntervalIsFree /\ [][C11_OverlappingEditChangesNothing]_vars

\* after an edit step that stored a change, the session's record of the changed
\* appointment ends where the stored row ends: at its time plus the duration of
\* its service
EditedRecordEndsWithItsRow ==
  (lastAction'.name = "handleEditAppointment" /\ lastAction'.outcome = "updated")
    => \A k \in DOMAIN appointments' :
         LET apt == appointments'[k]
         IN db'[apt.id] # db[apt.id]
              => /\ apt.endTime = db'[apt.id].end_time
                 /\ apt.endTime =
                      ClockText(MinutesOf(apt.time) + duration_minutes(apt.serviceId))

\* C17: after a successful edit that moves an appointment to a new time, the
\* appointment's record in the session's list has endTime equal to the new time
\* plus its service's duration: the interval later availability checks of the
\* session use is the interval that was persisted.
C17_EditedEndTimeFollowsTheMove == [][EditedRecordEndsWithItsRow]_vars

----------------------------------------------------------------------------
(* Properties of several sessions, checked under SpecSessions *)

BookingStart(booking) == MinutesOf(booking.time)
BookingEnd(booking) == MinutesOf(booking.time) + duration_minutes(booking.serviceId)

\* two bookings ask for overlapping slots of one staff member on one date
SlotsCollide(a, b) ==
  /\ a.staffId = b.staffId
  /\ a.date = b.date
  /\ Intersect(BookingStart(a), BookingEnd(a), BookingStart(b), BookingEnd(b))

\* session s has run the final check of a booking
Checked(s) == sessions[s].booking # NoBooking

\* the check of session s ran while the booking of session t was not yet stored
CheckedBeforeWriteOf(s, t) ==
  sessions[t].rowId = 0 \/ sessions[s].checkedAt < sessions[t].rowId

\* when session s ran its check the store held no live appointment of the staff
\* member on the date
DayWasFree(s) ==
  \A id \in 1..sessions[s].checkedAt :
    ~( /\ db[id].staff_id = sessions[s].booking.staffId
       /\ db[id].appointment_date = sessions[s].booking.date
       /\ db[id].status # "cancelled" )

\* sessions s and t race for one slot: each checked before the other's write
Race(s, t) ==
  /\ s # t
  /\ Checked(s) /\ Checked(t)
  /\ SlotsCollide(sessions[s].booking, sessions[t].booking)
  /\ CheckedBeforeWriteOf(s, t) /\ CheckedBeforeWriteOf(t, s)
  /\ DayWasFree(s) /\ DayWasFree(t)

\* the handler of session s has returned and its storage call did not fail
Completed(s) == sessions[s].pc = "ready" /\ sessions[s].storageOk

\* the booking of session s is stored, not cancelled
Stored(s) ==
  /\ sessions[s].outcome = "created"
  /\ sessions[s].rowId \in DOMAIN db
  /\ db[sessions[s].rowId].staff_id = sessions[s].booking.staffId
  /\ db[sessions[s].rowId].appointment_date = sessions[s].booking.date
  /\ db[sessions[s].rowId].start_time = sessions[s].booking.time
  /\ db[sessions[s].rowId].status # "cancelled"

\* C12: when two sessions each run isTimeSlotAvailable on their own copy of the
\* list for overlapping slots of one staff member and date before either
\* appointment is written, both checks return true, and both appointments are
\* created once the storage calls go through: nothing between the check and the
\* write serializes or re-validates them.
C12_RacingBookingsAreBothCreated ==
  \A s \in SessionIds : \A t \in SessionIds :
    Race(s, t)
      => /\ sessions[s].outcome # "rejected"
         /\ sessions[t].outcome # "rejected"
         /\ Completed(s) => Stored(s)
         /\ Completed(t) => Stored(t)

\* both racing bookings have been created
C12_Witness ==
  \E s \in SessionIds : \E t \in SessionIds :
    Race(s, t) /\ Completed(s) /\ Completed(t) /\ Stored(s) /\ Stored(t)

----------------------------------------------------------------------------
(* Properties of the time conversions, checked under SpecClock *)

\* the text is two digits, a colon and two digits
IsClockText(t) ==
  /\ Len(t) = 5
  /\ IsDigit(t[1]) /\ IsDigit(t[2])
  /\ t[3] = ":"
  /\ IsDigit(t[4]) /\ IsDigit(t[5])

\* C13: for every minute value m with 0 <= m <= 1439, minutesToTime(m) is a
\* zero-padded HH:MM text of exactly five characters, and timeToMinutes of that
\* text is m again.
C13_MinutesRoundTrip ==
  /\ op = "minutesToTime" => IsClockText(retSlots[1])
  /\ op = "timeToMinutes" => /\ IsClockText(args.start)
                            /\ retNumber = args.minutes

\* 65 minutes became "01:05" and came back as 65
C13_Witness ==
  /\ op = "timeToMinutes"
  /\ args.minutes = 65
  /\ args.start = <<"0", "1", ":", "0", "5">>
  /\ retNumber = 65

----------------------------------------------------------------------------
(* Scenarios of the slot generation, checked under SpecEngine *)

\* generateAvailableTimeSlots was called for a Monday and a staff member who is
\* available on Mondays from 09:00 to 17:00, with a 60-minute service
MondayNineToFive ==
  /\ CalledGenerate
  /\ CalendarDayName(args.date) = "monday"
  /\ "monday" \in DOMAIN args.staffMember.availability
  /\ args.staffMember.availability["monday"] = Day(T0900, T1700, TRUE)
  /\ args.duration = 60

\* the n half-hour starts from 09:00 on
HalfHoursFromNine(n) == [k \in 1..n |-> ClockText(510 + 30 * k)]

\* C14: for a staff member available on Monday from 09:00 to 17:00, a service
\* of 60 minutes and no existing appointments, generateAvailableTimeSlots for a
\* Monday returns the 15 slots 09:00, 09:30, ..., 16:00: the last slot is 16:00
\* and 16:30 is not returned.
C14_MondayNineToFiveHasFifteenSlots ==
  (MondayNineToFive /\ existingAppointments = <<>>)
    => /\ retSlots = HalfHoursFromNine(15)
       /\ retSlots[Len(retSlots)] = T1600

\* the start times returned, in minutes
SlotMinutes == {MinutesOf(retSlots[k]) : k \in Indices(retSlots)}

\* the list holds one appointment: confirmed, of the staff member, on the date,
\* with an end time
OneConfirmedAppointment ==
  /\ Len(existingAppointments) = 1
  /\ existingAppointments[1].status = "confirmed"
  /\ existingAppointments[1].staffId = args.staffMember.id
  /\ existingAppointments[1].date = args.date
  /\ existingAppointments[1].endTime # undefined
  /\ existingAppointments[1].endTime # <<>>

\* the grid starts of the working hours of the date's weekday that leave room
\* for the service
FittingGridSlots ==
  IF ~CalendarDay.available THEN {}
  ELSE {s \in MinutesOf(CalendarDay.start)..(MinutesOf(CalendarDay.end) - 1) :
          /\ (s - MinutesOf(CalendarDay.start)) % 30 = 0
          /\ s + args.duration <= MinutesOf(CalendarDay.end)}

\* C15: with one existing confirmed appointment [a, b) of the staff member on the
\* date, generateAvailableTimeSlots omits every grid slot s with s < b and
\* s + service.duration > a and keeps every other grid slot that fits the working
\* hours; for Monday 09:00-17:00, a 60-minute service and a confirmed appointment
\* 10:00-11:00, the slots 09:30, 10:00 and 10:30 are absent and 09:00 and 11:00
\* are present.
C15_OneAppointmentRemovesItsOverlaps ==
  (CalledGenerate /\ OneConfirmedAppointment)
    => LET a == MinutesOf(existingAppointments[1].time)
           b == MinutesOf(existingAppointments[1].endTime)
       IN /\ SlotMinutes =
               {s \in FittingGridSlots : ~(s < b /\ s + args.duration > a)}
          /\ ( /\ MondayNineToFive
               /\ existingAppointments[1].time = T1000
               /\ existingAppointments[1].endTime = T1100 )
             => /\ {MinutesOf(T0930), MinutesOf(T1000), MinutesOf(T1030)}
                    \cap SlotMinutes = {}
                /\ {MinutesOf(T0900), MinutesOf(T1100)} \subseteq SlotMinutes

----------------------------------------------------------------------------
(* Determinism of the engine, checked under SpecTwice *)

\* a step that applies the function applied last to the same arguments and the
\* same appointment list leaves the result as it was
SameCallSameResult ==
  ( /\ op \in {"isTimeSlotAvailable", "generateAvailableTimeSlots"}
    /\ op' = op
    /\ args' = args
    /\ existingAppointments' = existingAppointments )
  => (retBool' = retBool /\ retSlots' = retSlots)

\* C16: generateAvailableTimeSlots and isTimeSlotAvailable are deterministic: two
\* invocations with the same date, staff member, service and appointment list
\* return the same result, with no dependence on earlier calls or on any other
\* hidden input.
C16_SameArgumentsSameResult == [][SameCallSameResult]_vars

\* two stored appointments of one staff member and date, neither cancelled,
\* occupy intervals that have a minute in common
RowsCollide(i, j) ==
  /\ db[i].staff_id = db[j].staff_id
  /\ db[i].appointment_date = db[j].appointment_date
  /\ db[i].status # "cancelled"
  /\ db[j].status # "cancelled"
  /\ Intersect(RowStart(db[i]), RowEnd(db[i]), RowStart(db[j]), RowEnd(db[j]))

\* C20: if a booking by one session has been fully persisted before another
\* session submits a booking for an overlapping slot of the same staff member
\* and date, the second session's final check rejects the submission and no
\* second appointment is created: a stored appointment that collides with an
\* earlier one of another session was checked before the earlier one was stored.
C20_LaterSubmitSeesPersistedBooking ==
  \A i \in DOMAIN db : \A j \in DOMAIN db :
    ( /\ i < j
      /\ history[i].session \in SessionIds
      /\ history[j].session \in SessionIds
      /\ history[i].session # history[j].session
      /\ RowsCollide(i, j) )
    => history[j].checkedAt < i

----------------------------------------------------------------------------
(* Appointments stored without an end time, checked under SpecSessions *)

\* C18: an appointment that is stored without an end time and loaded into a
\* session still blocks its slot: for a non-cancelled such appointment,
\* isTimeSlotAvailable on the session's list refuses a proposed slot of the same
\* staff member and date that starts at the appointment's start time.
C18_LoadedWithoutEndTimeStillBlocks ==
  \A s \in SessionIds : \A k \in DOMAIN sessions[s].appointments :
    LET apt == sessions[s].appointments[k]
    IN ( /\ db[apt.id].end_time = null
         /\ apt.status # "cancelled" )
       => \A duration \in Durations :
            ~isTimeSlotAvailable(apt.time, duration, sessions[s].appointments,
                                 apt.staffId, apt.date)

----------------------------------------------------------------------------
(* Properties of the call-in modal, checked under SpecCallIn *)

\* the working hours of the stylist of a stored appointment on the weekday of
\* its date
WorkingDay(row) ==
  availabilityOf(findStaff(row.staff_id), CalendarDayName(row.appointment_date))

\* C19: after any sequence of changes to the call-in form followed by a
\* successful submit, the created appointment lies within the selected stylist's
\* working hours for the weekday of the appointment date: that day is marked
\* available, the start is not before the day's start, and start plus service
\* duration is not after the day's end.
C19_CallInLiesInWorkingHours ==
  \A id \in DOMAIN db :
    /\ WorkingDay(db[id]).available
    /\ MinutesOf(WorkingDay(db[id]).start) <= RowStart(db[id])
    /\ RowEnd(db[id]) <= MinutesOf(WorkingDay(db[id]).end)

----------------------------------------------------------------------------
(* Pressing the submit button twice *)

\* call j of the handler was started while call i was waiting for storage
StartedDuring(i, j) == i # j /\ i \in invocations[j].inFlight

SameSlot(i, j) ==
  /\ invocations[i].booking.staffId = invocations[j].booking.staffId
  /\ invocations[i].booking.date = invocations[j].booking.date
  /\ invocations[i].booking.time = invocations[j].booking.time

CreatedRow(i) == invocations[i].rowId > 0

\* C21: of two calls of the submit handler for the same staff member, date
\* and time, the second started before the first has completed its storage
\* calls, at most one creates an appointment
C21_DoubleSubmitCreatesOnce ==
  \A i \in InvocationIds, j \in InvocationIds :
    (StartedDuring(i, j) /\ SameSlot(i, j)) => ~(CreatedRow(i) /\ CreatedRow(j))

----------------------------------------------------------------------------
(* Rejected and failed requests *)

BookingHandlers == {"handleCustomerBookingSubmit", "handleCreateCallInAppointment"}

\* C22: a booking or edit rejected by the availability check changes neither
\* the stored rows nor the session's list, and a booking whose storage call
\* fails leaves the session's list as it was
C22_RejectedOrFailedChangesNothing ==
  [][ /\ lastAction'.outcome = "rejected"
           => (db' = db /\ appointments' = appointments)
      /\ (lastAction'.outcome = "error" /\ lastAction'.name \in BookingHandlers)
           => appointments' = appointments ]_vars

\* a booking has just been rejected in a session that holds an appointment
C22_Witness ==
  /\ lastAction.outcome = "rejected"
  /\ lastAction.name \in BookingHandlers
  /\ Len(appointments) > 0
  /\ Len(db) > 0

----------------------------------------------------------------------------
(* Cancelling an appointment *)

Offered(slots, t) == \E n \in DOMAIN slots : slots[n] = t

\* the slots of the staff member's working hours on the date that leave room for
\* the service: what is offered when nothing is booked
GridSlots(staffMember, service, date) ==
  generateAvailableTimeSlots(date, staffMember, service, <<>>)

\* the engine refuses the proposal [t, t + duration) for the staff member and
\* date of appointment k, and accepts it once appointment k is taken out
BlockedOnlyBy(list, k, t, duration) ==
  /\ ~isTimeSlotAvailable(t, duration, list, list[k].staffId, list[k].date)
  /\ isTimeSlotAvailable(t, duration, withoutAppointment(list, list[k].id),
                         list[k].staffId, list[k].date)

\* the step is a successful cancellation
CancelSucceeds ==
  lastAction' = [name |-> "handleCancelAppointment", outcome |-> "cancelled"]

\* the step is a cancellation whose storage update failed
CancelFails ==
  lastAction' = [name |-> "handleCancelAppointment", outcome |-> "error"]

\* a successful cancellation turns one confirmed appointment of the list into a
\* cancelled one, and every slot only it blocked is offered afterwards
CancelledFreesItsSlots ==
  CancelSucceeds =>
    /\ \E k \in DOMAIN appointments :
         appointments[k].status = "confirmed" /\ appointments'[k].status = "cancelled"
    /\ \A k \in DOMAIN appointments :
         appointments'[k] # appointments[k] =>
           /\ appointments'[k].status = "cancelled"
           /\ \A service \in SessionServices :
                \A n \in DOMAIN GridSlots(findStaff(appointments[k].staffId),
                                          service, appointments[k].date) :
                  LET staffMember == findStaff(appointments[k].staffId)
                      t == GridSlots(staffMember, service, appointments[k].date)[n]
                  IN BlockedOnlyBy(appointments, k, t, service.duration)
                       => Offered(generateAvailableTimeSlots(
                                    appointments[k].date, staffMember, service,
                                    appointments'), t)

\* after a failed cancellation every appointment that could have been its
\* target is still confirmed and still blocks a proposal for its own slot
FailedCancelKeepsBlocking ==
  CancelFails =>
    \A k \in DOMAIN appointments :
      appointments[k].status = "confirmed" =>
        /\ appointments'[k].status = "confirmed"
        /\ ~isTimeSlotAvailable(appointments'[k].time,
                                durationOrDefault(appointments'[k].serviceId),
                                appointments', appointments'[k].staffId,
                                appointments'[k].date)

\* C23: after a successful cancellation the appointment's status in the list is
\* cancelled and every grid slot that only it blocked is offered again by
\* generateAvailableTimeSlots; after a cancellation whose storage update failed
\* the appointment's status is unchanged and it keeps blocking its slot
C23_CancelFreesAndFailedCancelKeeps ==
  [][CancelledFreesItsSlots /\ FailedCancelKeepsBlocking]_vars

----------------------------------------------------------------------------
(* The two end-time computations applied to every half hour of the day *)

\* start times: every half hour from 00:00 to 23:30
DayTimes == {ClockText(30 * k) : k \in 0..47}

InitEndTime ==
  /\ op = "none"
  /\ args \in {[NoArgs EXCEPT !.start = start, !.duration = duration] :
                 start \in DayTimes, duration \in Durations}
  /\ retBool = FALSE
  /\ retSlots = <<>>
  /\ retNumber = 0
  /\ existingAppointments = <<>>
  /\ tz = 0
  /\ appointments = <<>>
  /\ db = <<>>
  /\ lastAction = NoAction
  /\ callInForm = NoCallInForm
  /\ sessions = NoSessions
  /\ invocations = NoInvocations
  /\ history = <<>>

\* timeSlotUtils.getAppointmentEndTime(start, duration); the text returned is
\* kept as the first element of retSlots
CallGetAppointmentEndTime ==
  /\ op = "none"
  /\ op' = "getAppointmentEndTime"
  /\ retSlots' = <<getAppointmentEndTime(args.start, args.duration)>>
  /\ UNCHANGED <<existingAppointments, args, retBool, retNumber, tz, sessionVars,
                 callInForm, multiVars>>

\* timeToMinutes applied to the end time the engine returned
CallEndTimeToMinutes ==
  /\ op = "getAppointmentEndTime"
  /\ op' = "timeToMinutes"
  /\ retNumber' = timeToMinutes(retSlots[1])
  /\ UNCHANGED <<existingAppointments, args, retBool, retSlots, tz, sessionVars,
                 callInForm, multiVars>>

\* supabaseHelpers' calculateEndTime(start, duration): the end_time that
\* createAppointment stores; kept as the second element of retSlots
CallCalculateEndTime ==
  /\ op = "timeToMinutes"
  /\ op' = "calculateEndTime"
  /\ retSlots' = Append(retSlots, calculateEndTime(args.start, args.duration))
  /\ UNCHANGED <<existingAppointments, args, retBool, retNumber, tz, sessionVars,
                 callInForm, multiVars>>

NextEndTime ==
  \/ CallGetAppointmentEndTime
  \/ CallEndTimeToMinutes
  \/ CallCalculateEndTime

SpecEndTime == InitEndTime /\ [][NextEndTime]_vars

\* C24: the end time supabaseHelpers' calculateEndTime stores denotes the same
\* minute offset as the end time timeSlotUtils.getAppointmentEndTime computes,
\* for every start time and service duration
C24_StoredEndTimeAgreesWithEngine ==
  op = "calculateEndTime" => MinutesOf(retSlots[2]) = MinutesOf(retSlots[1])

\* C26: timeToMinutes(getAppointmentEndTime(start, duration)) is
\* timeToMinutes(start) + duration, also when the sum is 1440 or more: an end
\* past midnight is not wrapped to an earlier time of day
C26_EndTimeIsNotWrapped ==
  op \in {"timeToMinutes", "calculateEndTime"}
    => retNumber = MinutesOf(args.start) + args.duration

\* 23:30 and 60 minutes: the end is "24:30", minute 1470
C26_Witness ==
  /\ op = "timeToMinutes"
  /\ args.start = T2330
  /\ args.duration = 60
  /\ retSlots[1] = <<"2", "4", ":", "3", "0">>
  /\ retNumber = 1470

----------------------------------------------------------------------------
(* A status-only update of a stored appointment *)

\* C25: supabaseHelpers.updateAppointment called with updates that carry no
\* time (the cancellation's {status: "cancelled"}) leaves the stored end time,
\* start time and date of the appointment as they were
C25_StatusUpdateKeepsStoredTimes ==
  [][CancelSucceeds =>
       \A id \in DOMAIN db :
         /\ db'[id].end_time = db[id].end_time
         /\ db'[id].start_time = db[id].start_time
         /\ db'[id].appointment_date = db[id].appointment_date]_vars

----------------------------------------------------------------------------
(* Appointments of other staff members and other dates *)

\* the appointments of the list that are of the staff member and on the date
OfStaffOnDate(list, staffId, date) ==
  SelectSeq(list, LAMBDA apt : apt.staffId = staffId /\ apt.date = date)

\* C27: appointments of another staff member or on another date never influence
\* the answer: isTimeSlotAvailable and generateAvailableTimeSlots for staff S
\* and date D return on a list what they return on its appointments of S on D
\* alone, so two lists with the same appointments of S on D get the same result
C27_OtherStaffAndDatesDoNotMatter ==
  /\ CalledIsTimeSlotAvailable =>
       retBool = isTimeSlotAvailable(
                   args.start, args.duration,
                   OfStaffOnDate(existingAppointments, args.staffId, args.date),
                   args.staffId, args.date)
  /\ CalledGenerate =>
       retSlots = generateAvailableTimeSlots(
                    args.date, args.staffMember,
                    [id |-> "", duration |-> args.duration],
                    OfStaffOnDate(existingAppointments, args.staffMember.id,
                                  args.date))

\* a proposal is accepted although an appointment of another staff member on the
\* same date and one of the same staff member on another date overlap it
C27_Witness ==
  /\ CalledIsTimeSlotAvailable
  /\ retBool = TRUE
  /\ \E i \in Indices(existingAppointments), j \in Indices(existingAppointments) :
       LET a == existingAppointments[i]
           b == existingAppointments[j]
       IN /\ a.staffId # args.staffId /\ a.date = args.date
          /\ a.status = "confirmed"
          /\ Intersect(MinutesOf(args.start), MinutesOf(args.start) + args.duration,
                       MinutesOf(a.time), EffectiveEnd(a))
          /\ b.staffId = args.staffId /\ b.date # args.date
          /\ b.status = "confirmed"
          /\ Intersect(MinutesOf(args.start), MinutesOf(args.start) + args.duration,
                       MinutesOf(b.time), EffectiveEnd(b))

----------------------------------------------------------------------------
(* generateAvailableTimeSlots taken one loop iteration at a time *)

\* the loop variable `time` is kept in retNumber and `timeSlots` in retSlots;
\* op is "loop" while the for statement runs
InitLoop ==
  /\ existingAppointments \in SeqsUpTo(ApptUniverse, MaxAppts - 1)
  /\ tz \in TimezoneOffsets
  /\ op = "none"
  /\ args = NoArgs
  /\ retBool = FALSE
  /\ retSlots = <<>>
  /\ retNumber = 0
  /\ appointments = <<>>
  /\ db = <<>>
  /\ lastAction = NoAction
  /\ callInForm = NoCallInForm
  /\ sessions = NoSessions
  /\ invocations = NoInvocations
  /\ history = <<>>

\* `end` of the call in progress
loopEnd ==
  DateFromLocalTime(availabilityOf(args.staffMember,
                                   dayNameLocal(DateFromISODate(args.date))).end)

\* the for statement's condition: time < end (false when either is Invalid Date)
loopCondition ==
  retNumber # InvalidDate /\ loopEnd # InvalidDate /\ retNumber < loopEnd

\* the call up to the for statement: the closed-day return, or `time = start`
generateEnter ==
  \E date \in Dates, staffMember \in StaffMembers, service \in Services :
    LET availability == availabilityOf(staffMember,
                                       dayNameLocal(DateFromISODate(date)))
    IN /\ op = "none"
       /\ args' = [NoArgs EXCEPT !.date = date, !.duration = service.duration,
                                 !.staffMember = staffMember]
       /\ retSlots' = <<>>
       /\ IF ~availability.available
            THEN /\ op' = "generateAvailableTimeSlots"
                 /\ retNumber' = 0
            ELSE /\ op' = "loop"
                 /\ retNumber' = DateFromLocalTime(availability.start)
       /\ UNCHANGED <<existingAppointments, retBool, tz, sessionVars, callInForm,
                      multiVars>>

\* one iteration of the for statement: the body, then the increment
generateIterate ==
  LET timeString == slice0(toTimeString(retNumber), 5)
      keep == serviceFits(retNumber, args.duration, loopEnd)
                /\ isTimeSlotAvailable(timeString, args.duration,
                                       existingAppointments, args.staffMember.id,
                                       args.date)
  IN /\ op = "loop"
     /\ loopCondition
     /\ retSlots' = IF keep THEN Append(retSlots, timeString) ELSE retSlots
     /\ retNumber' = nextSlotTime(retNumber)
     /\ UNCHANGED <<existingAppointments, op, args, retBool, tz, sessionVars,
                    callInForm, multiVars>>

\* the condition is false: return timeSlots
generateReturn ==
  /\ op = "loop"
  /\ ~loopCondition
  /\ op' = "generateAvailableTimeSlots"
  /\ UNCHANGED <<existingAppointments, args, retBool, retSlots, retNumber, tz,
                 sessionVars, callInForm, multiVars>>

NextLoop ==
  \/ generateEnter
  \/ generateIterate
  \/ generateReturn

\* the step a call in its loop takes next: an iteration or the return
loopAdvance ==
  /\ op = "loop"
  /\ \/ retNumber' = nextSlotTime(retNumber) /\ op' = op
     \/ retNumber' = retNumber /\ op' = "generateAvailableTimeSlots"

\* the loop is synchronous code: a call that has entered it keeps running
SpecLoop ==
  /\ InitLoop
  /\ [][NextLoop]_vars
  /\ WF_<<op, retNumber>>(loopAdvance)

\* the window has two well-formed bounds, the start before the end
ProperWindow(day) ==
  /\ DateFromLocalTime(day.start) # InvalidDate
  /\ DateFromLocalTime(day.end) # InvalidDate
  /\ MinutesOf(day.start) < MinutesOf(day.end)

\* ceil((dayEnd - dayStart) / 30)
MostSlots(day) == (MinutesOf(day.end) - MinutesOf(day.start) + 29) \div 30

\* at no point of a call does timeSlots hold more than the bound allows
SlotCountBounded ==
  op \in {"loop", "generateAvailableTimeSlots"} =>
    Len(retSlots) <= IF LookedUpDay.available /\ ProperWindow(LookedUpDay)
                       THEN MostSlots(LookedUpDay) ELSE 0

\* the loop of a call has been entered
InLoop == op = "loop"

\* the call has returned
Returned == op = "generateAvailableTimeSlots"

\* C29: generateAvailableTimeSlots terminates for every availability window,
\* also one whose start is not before its end, for which it returns the empty
\* sequence; it returns at most ceil((dayEnd - dayStart) / 30) slots
C29_GenerateTerminatesWithBoundedSlots ==
  /\ []SlotCountBounded
  /\ InLoop ~> Returned

\* a call for a working day whose window ends before it starts has returned
\* the empty sequence
C29_Witness ==
  /\ Returned
  /\ LookedUpDay.available
  /\ MinutesOf(LookedUpDay.start) > MinutesOf(LookedUpDay.end)
  /\ retSlots = <<>>

----------------------------------------------------------------------------
(* An interval and itself *)

\* doTimeRangesOverlap was applied to one non-empty interval twice
CalledOverlapOnItself ==
  /\ CalledOverlap
  /\ args.start2 = args.start
  /\ args.end2 = args.end1
  /\ MinutesOf(args.start) < MinutesOf(args.end1)

\* the call of isTimeSlotAvailable proposes, for the staff member and date of
\* appointment i of the list, that appointment's own start and duration
ProposesOwnInterval(i) ==
  LET a == existingAppointments[i]
  IN /\ a.staffId = args.staffId
     /\ a.date = args.date
     /\ a.time = args.start
     /\ args.duration > 0
     /\ EffectiveEnd(a) = MinutesOf(a.time) + args.duration

\* C30 as stated: doTimeRangesOverlap(start, end, start, end) is true for every
\* interval with start < end, and every appointment left in the list conflicts
\* with a proposal for its own start and duration
C30_AppointmentConflictsWithItself ==
  /\ CalledOverlapOnItself => retBool = TRUE
  /\ CalledIsTimeSlotAvailable =>
       \A i \in Indices(existingAppointments) :
         ProposesOwnInterval(i) => retBool = FALSE

\* C30 amended: doTimeRangesOverlap(start, end, start, end) is true for every
\* interval with start < end, and every appointment left in the list whose
\* status is not cancelled conflicts with a proposal for its own start and
\* duration
C30_UncancelledAppointmentConflictsWithItself ==
  /\ CalledOverlapOnItself => retBool = TRUE
  /\ CalledIsTimeSlotAvailable =>
       \A i \in Indices(existingAppointments) :
         (ProposesOwnInterval(i) /\ existingAppointments[i].status # "cancelled")
           => retBool = FALSE

\* a proposal for the start and duration of a confirmed appointment of the list
\* has been refused
C30_Witness ==
  /\ CalledIsTimeSlotAvailable
  /\ retBool = FALSE
  /\ Len(existingAppointments) = 1
  /\ ProposesOwnInterval(1)
  /\ existingAppointments[1].status = "confirmed"

====
